---- MODULE Spec2Model ----
(***************************************************************************)
(* A model of the NFA engine of route-recognizer                           *)
(* (src/src/route_recognizer/nfa.rs): the character classes, the state     *)
(* graph with its construction operations, and the thread simulation of    *)
(* process with its capture tracking.                                      *)
(*                                                                         *)
(* A u64 bit mask is modelled as the set of its set bit positions (0..63): *)
(* mask | bit is union, mask & bit != 0 is membership, max_value ^ bit is  *)
(* the complement.  A &str is modelled as its UTF-8 byte sequence; the     *)
(* characters of an input are codepoints.  Option<T> is a sequence of      *)
(* length 0 (None) or 1 (Some).                                            *)
(***************************************************************************)
EXTENDS Integers, Sequences, FiniteSets, TLC

VARIABLES nfa, ret, pc, string, ord, threads, pos, thread, result,
          calls, probe

vars ==
  <<nfa, ret, pc, string, ord, threads, pos, thread, result, calls, probe>>

-----------------------------------------------------------------------------
(* Bounds of the model.                                                    *)

\* the largest number of states an automaton is grown to
MaxStates == 3
\* the largest number of transitions added by put_state
MaxBackEdges == 1
\* the largest number of flags and payloads set over the whole automaton
MaxMarks == 3
\* the largest number of characters of an input
MaxLen == 3

\* the codepoints of the inputs: 'a' (one byte) and 'e-acute' (two bytes)
Alphabet == {97, 233}

\* the payloads the compiler attaches
Payloads == {"handler"}

None == <<>>
Some(v) == <<v>>

-----------------------------------------------------------------------------
(* UTF-8: a &str is a byte sequence, len() and slice() count bytes.        *)

\* the UTF-8 encoding of one codepoint below 2048
Utf8Char(c) ==
  IF c < 128 THEN <<c>> ELSE <<192 + (c \div 64), 128 + (c % 64)>>

RECURSIVE Utf8(_)
Utf8(chars) ==
  IF chars = <<>> THEN <<>> ELSE Utf8Char(Head(chars)) \o Utf8(Tail(chars))

\* str::is_char_boundary: the end of the string, or no continuation byte
is_char_boundary(bytes, index) ==
  \/ index = Len(bytes)
  \/ /\ index < Len(bytes)
     /\ (bytes[index + 1] < 128 \/ bytes[index + 1] >= 192)

\* str::slice fails unless begin <= end are both character boundaries
slice_ok(bytes, begin, end) ==
  /\ begin <= end
  /\ end <= Len(bytes)
  /\ is_char_boundary(bytes, begin)
  /\ is_char_boundary(bytes, end)

slice(bytes, begin, end) == SubSeq(bytes, begin + 1, end)

-----------------------------------------------------------------------------
(* CharSet and CharacterClass.                                             *)

u64_max_value == 0 .. 63

\* `char as u64 - 1` in wrapping unsigned arithmetic: codepoint 0 gives the
\* largest value.  The modulus is 2^30 instead of 2^64 (TLC's integers
\* are 32 bits wide); codepoints are below 2^21, so every comparison of
\* val with 63 and 127 comes out as with 2^64.
val_of(char) == (char - 1) % (2 ^ 30)

CharSet_new == [low_mask |-> {}, high_mask |-> {}, non_ascii |-> {}]

\* an insert that keeps one mask for both halves of the ASCII range
insert_folding_masks(set, char) ==
  LET val == val_of(char) IN
  IF val > 127 THEN [set EXCEPT !.non_ascii = @ \cup {char}]
  ELSE IF val > 63 THEN [set EXCEPT !.low_mask = @ \cup {val - 64},
                                    !.high_mask = @ \cup {val - 64}]
  ELSE [set EXCEPT !.low_mask = @ \cup {val}]

insert(set, char) ==
  LET val == val_of(char) IN
  IF val > 127 THEN [set EXCEPT !.non_ascii = @ \cup {char}]
  ELSE IF val > 63 THEN [set EXCEPT !.high_mask = @ \cup {val - 64}]
  ELSE [set EXCEPT !.low_mask = @ \cup {val}]

contains(set, char) ==
  LET val == val_of(char) IN
  IF val > 127 THEN char \in set.non_ascii
  ELSE IF val > 63 THEN (val - 64) \in set.high_mask
  ELSE val \in set.low_mask

char_to_set(char) == insert(CharSet_new, char)

RECURSIVE str_to_set_from(_, _)
str_to_set_from(set, chars) ==
  IF chars = <<>> THEN set
  ELSE str_to_set_from(insert(set, Head(chars)), Tail(chars))

str_to_set(chars) == str_to_set_from(CharSet_new, chars)

Ascii(high, low, unicode) ==
  [tag |-> "Ascii", high |-> high, low |-> low, unicode |-> unicode]
ValidChars(set) == [tag |-> "ValidChars", set |-> set]
InvalidChars(set) == [tag |-> "InvalidChars", set |-> set]

any == Ascii(u64_max_value, u64_max_value, TRUE)

valid(chars) == ValidChars(str_to_set(chars))

invalid(chars) == InvalidChars(str_to_set(chars))

valid_char(char) ==
  LET val == val_of(char) IN
  IF val > 127 THEN ValidChars(char_to_set(char))
  ELSE IF val > 63 THEN Ascii({val - 64}, {}, FALSE)
  ELSE Ascii({}, {val}, FALSE)

invalid_char(char) ==
  LET val == val_of(char) IN
  IF val > 127 THEN InvalidChars(char_to_set(char))
  ELSE IF val > 63 THEN Ascii(u64_max_value \ {val - 64}, u64_max_value, TRUE)
  ELSE Ascii(u64_max_value, u64_max_value \ {val}, TRUE)

matches(class, char) ==
  IF class.tag = "ValidChars" THEN contains(class.set, char)
  ELSE IF class.tag = "InvalidChars" THEN ~contains(class.set, char)
  ELSE LET val == val_of(char) IN
       IF val > 127 THEN class.unicode
       ELSE IF val > 63 THEN (val - 64) \in class.high
       ELSE val \in class.low

\* the classes the compiler builds transitions with: 'a' and "not '/'"
\* (state 0 has the class any)
Classes == {valid_char(97), invalid_char(47)}

-----------------------------------------------------------------------------
(* State and NFA: construction.                                            *)

State_new(index, chars) ==
  [index |-> index, chars |-> chars, next_states |-> <<>>,
   acceptance |-> FALSE, start_capture |-> FALSE, end_capture |-> FALSE,
   metadata |-> None]

NFA_new ==
  [states |-> <<State_new(0, any)>>,
   start_capture |-> <<FALSE>>,
   end_capture |-> <<FALSE>>,
   acceptance |-> <<FALSE>>]

\* self.states[state]: indices count from 0
get(n, state) == n.states[state + 1]

NumStates(n) == Len(n.states)
Indices(n) == 0 .. (NumStates(n) - 1)

\* a new_state that numbers the states from 1
new_state_numbering_from_one(n, chars) ==
  LET index == Len(n.states) + 1 IN
  [nfa |-> [states |-> Append(n.states, State_new(index, chars)),
            acceptance |-> Append(n.acceptance, FALSE),
            start_capture |-> Append(n.start_capture, FALSE),
            end_capture |-> Append(n.end_capture, FALSE)],
   ret |-> index]

new_state(n, chars) ==
  LET index == Len(n.states) IN
  [nfa |-> [states |-> Append(n.states, State_new(index, chars)),
            acceptance |-> Append(n.acceptance, FALSE),
            start_capture |-> Append(n.start_capture, FALSE),
            end_capture |-> Append(n.end_capture, FALSE)],
   ret |-> index]

\* the positions of index's transition list whose target has a class equal
\* to chars
EqualTargets(n, index, chars) ==
  {k \in DOMAIN get(n, index).next_states :
     get(n, get(n, index).next_states[k]).chars = chars}

Min(S) == CHOOSE m \in S : \A k \in S : m <= k

\* a put that never merges
put_always_new(n, index, chars) ==
  LET made == new_state(n, chars) IN
  [nfa |-> [made.nfa EXCEPT
              !.states[index + 1].next_states = Append(@, made.ret)],
   ret |-> made.ret]

put(n, index, chars) ==
  LET found == EqualTargets(n, index, chars) IN
  IF found # {} THEN
    [nfa |-> n, ret |-> get(n, index).next_states[Min(found)]]
  ELSE
    LET made == new_state(n, chars) IN
    [nfa |-> [made.nfa EXCEPT
                !.states[index + 1].next_states = Append(@, made.ret)],
     ret |-> made.ret]

put_state(n, index, child) ==
  [n EXCEPT !.states[index + 1].next_states = Append(@, child)]

NFA_acceptance(n, index) ==
  [n EXCEPT !.states[index + 1].acceptance = TRUE,
            !.acceptance[index + 1] = TRUE]

NFA_start_capture(n, index) ==
  [n EXCEPT !.states[index + 1].start_capture = TRUE,
            !.start_capture[index + 1] = TRUE]

\* an end_capture that marks the state and leaves the mirror alone
NFA_end_capture_without_mirror(n, index) ==
  [n EXCEPT !.states[index + 1].end_capture = TRUE]

NFA_end_capture(n, index) ==
  [n EXCEPT !.states[index + 1].end_capture = TRUE,
            !.end_capture[index + 1] = TRUE]

NFA_metadata(n, index, m) ==
  [n EXCEPT !.states[index + 1].metadata = Some(m)]

\* the number of flags set in the automaton
RECURSIVE CountTrue(_)
CountTrue(flags) ==
  IF flags = <<>> THEN 0
  ELSE (IF Head(flags) THEN 1 ELSE 0) + CountTrue(Tail(flags))

RECURSIVE CountPayloads(_)
CountPayloads(states) ==
  IF states = <<>> THEN 0
  ELSE (IF Head(states).metadata # None THEN 1 ELSE 0)
         + CountPayloads(Tail(states))

MarkCount(n) ==
  CountTrue(n.acceptance) + CountTrue(n.start_capture)
    + CountTrue(n.end_capture) + CountPayloads(n.states)

RECURSIVE CountEdges(_)
CountEdges(states) ==
  IF states = <<>> THEN 0
  ELSE Len(Head(states).next_states) + CountEdges(Tail(states))

\* put adds one transition with every state it creates; the others were
\* added by put_state
BackEdgeCount(n) == CountEdges(n.states) - (NumStates(n) - 1)

-----------------------------------------------------------------------------
(* The construction calls of the compiler.  ret holds the value the latest *)
(* call returned: Some(index) after put, None after the others.            *)

Put(index, chars) ==
  /\ pc = "build"
  /\ NumStates(nfa) < MaxStates \/ EqualTargets(nfa, index, chars) # {}
  /\ LET r == put(nfa, index, chars) IN
       /\ nfa' = r.nfa
       /\ ret' = Some(r.ret)
  /\ UNCHANGED <<pc, string, ord, threads, pos, thread, result, calls, probe>>

PutState(index, child) ==
  /\ pc = "build"
  /\ BackEdgeCount(nfa) < MaxBackEdges
  /\ nfa' = put_state(nfa, index, child)
  /\ ret' = None
  /\ UNCHANGED <<pc, string, ord, threads, pos, thread, result, calls, probe>>

Acceptance(index) ==
  /\ pc = "build"
  /\ nfa.acceptance[index + 1] \/ MarkCount(nfa) < MaxMarks
  /\ nfa' = NFA_acceptance(nfa, index)
  /\ ret' = None
  /\ UNCHANGED <<pc, string, ord, threads, pos, thread, result, calls, probe>>

StartCapture(index) ==
  /\ pc = "build"
  /\ nfa.start_capture[index + 1] \/ MarkCount(nfa) < MaxMarks
  /\ nfa' = NFA_start_capture(nfa, index)
  /\ ret' = None
  /\ UNCHANGED <<pc, string, ord, threads, pos, thread, result, calls, probe>>

EndCapture(index) ==
  /\ pc = "build"
  /\ nfa.end_capture[index + 1] \/ MarkCount(nfa) < MaxMarks
  /\ nfa' = NFA_end_capture(nfa, index)
  /\ ret' = None
  /\ UNCHANGED <<pc, string, ord, threads, pos, thread, result, calls, probe>>

Metadata(index, m) ==
  /\ pc = "build"
  /\ get(nfa, index).metadata # None \/ MarkCount(nfa) < MaxMarks
  /\ nfa' = NFA_metadata(nfa, index, m)
  /\ ret' = None
  /\ UNCHANGED <<pc, string, ord, threads, pos, thread, result, calls, probe>>

-----------------------------------------------------------------------------
(* Thread and the simulation.  A failed unwrap or slice aborts the call;   *)
(* Panic stands for the aborted computation.                               *)

Panic == [panic |-> TRUE]

Thread_new == [state |-> 0, captures |-> <<>>, capture_begin |-> None]

Thread_start_capture(t, start) == [t EXCEPT !.capture_begin = Some(start)]

\* an end_capture that puts the range in front of the others
Thread_end_capture_in_front(t, end) ==
  IF t.capture_begin = None THEN Panic
  ELSE [t EXCEPT !.captures = <<<<t.capture_begin[1], end>>>> \o @,
                 !.capture_begin = None]

\* self.capture_begin.unwrap() fails on None
Thread_end_capture(t, end) ==
  IF t.capture_begin = None THEN Panic
  ELSE [t EXCEPT !.captures = Append(@, <<t.capture_begin[1], end>>),
                 !.capture_begin = None]

\* extract fails when one of its slices does
extract_fails(t, source) ==
  \E k \in DOMAIN t.captures :
    ~slice_ok(source, t.captures[k][1], t.captures[k][2])

\* source.slice(begin, end) of every recorded range, in order
extract(t, source) ==
  [k \in DOMAIN t.captures |->
     slice(source, t.captures[k][1], t.captures[k][2])]

fork_thread(t, state) == [t EXCEPT !.state = state.index]

\* a capture rule that also closes on a transition to the same state
capture_closing_on_loop(n, t, current_state, next_state, p) ==
  LET opened ==
        IF t.capture_begin = None /\ n.start_capture[next_state + 1]
        THEN Thread_start_capture(t, p)
        ELSE t
  IN IF /\ opened.capture_begin # None
        /\ n.end_capture[current_state + 1]
        /\ next_state >= current_state
     THEN Thread_end_capture(opened, p)
     ELSE opened

\* a capture rule that opens on every start-marked state
capture_reopening(n, t, current_state, next_state, p) ==
  LET opened ==
        IF n.start_capture[next_state + 1]
        THEN Thread_start_capture(t, p)
        ELSE t
  IN IF /\ opened.capture_begin # None
        /\ n.end_capture[current_state + 1]
        /\ next_state > current_state
     THEN Thread_end_capture(opened, p)
     ELSE opened

\* a capture rule that runs the close check before the open check
capture_closing_first(n, t, current_state, next_state, p) ==
  LET closed ==
        IF /\ t.capture_begin # None
           /\ n.end_capture[current_state + 1]
           /\ next_state > current_state
        THEN Thread_end_capture(t, p)
        ELSE t
  IN IF closed.capture_begin = None /\ n.start_capture[next_state + 1]
     THEN Thread_start_capture(closed, p)
     ELSE closed

capture(n, t, current_state, next_state, p) ==
  LET opened ==
        IF t.capture_begin = None /\ n.start_capture[next_state + 1]
        THEN Thread_start_capture(t, p)
        ELSE t
  IN IF /\ opened.capture_begin # None
        /\ n.end_capture[current_state + 1]
        /\ next_state > current_state
     THEN Thread_end_capture(opened, p)
     ELSE opened

\* the targets of state's transitions whose class matches char, in the
\* order of the transition list
MatchingTargets(n, state, char) ==
  LET Hit(index) == matches(n.states[index + 1].chars, char)
  IN SelectSeq(state.next_states, Hit)

\* the body of process_char's loop for one thread: the threads it pushes
advance(n, t, char, p) ==
  LET current_state == get(n, t.state)
      found == MatchingTargets(n, current_state, char)
      count == Len(found)
  IN IF count = 1
     THEN <<capture(n, [t EXCEPT !.state = found[count]],
                    current_state.index, found[count], p)>>
     ELSE [k \in 1 .. count |->
             capture(n, fork_thread(t, n.states[found[k] + 1]),
                     current_state.index, found[k], p)]

RECURSIVE process_char(_, _, _, _)
process_char(n, ts, char, p) ==
  IF ts = <<>> THEN <<>>
  ELSE advance(n, Head(ts), char, p) \o process_char(n, Tail(ts), char, p)

\* the caller's order functions over state indices
Orders == {"ascending", "descending"}

OrdValue(o, index) ==
  IF o = "ascending" THEN index
  ELSE IF o = "descending" THEN 0 - index
  ELSE 0

\* Iterator::max_by of the standard library the code was written for: a
\* fold that replaces the kept element only by one of a strictly greater
\* value, so of several maxima the first is returned
RECURSIVE max_by_from(_, _, _)
max_by_from(best, ts, o) ==
  IF ts = <<>> THEN best
  ELSE max_by_from(
         IF OrdValue(o, Head(ts).state) > OrdValue(o, best.state)
         THEN Head(ts) ELSE best,
         Tail(ts), o)

\* a selection that takes the first thread whatever the order says
max_by_ignoring_order(ts, o) ==
  IF ts = <<>> THEN None ELSE Some(Head(ts))

max_by(ts, o) ==
  IF ts = <<>> THEN None ELSE Some(max_by_from(Head(ts), Tail(ts), o))

\* a filter that keeps every thread
accepting_unfiltered(n, ts) == ts

\* the threads process keeps after the last character
accepting(n, ts) ==
  LET Accepts(t) == get(n, t.state).acceptance IN SelectSeq(ts, Accepts)

\* the match arm of process: the result built from the selected thread
finish(n, selected, source) ==
  IF selected = None
  THEN [kind |-> "no_acceptance"]
  ELSE LET closed ==
             IF selected[1].capture_begin # None
             THEN Thread_end_capture(selected[1], Len(source))
             ELSE selected[1]
       IN IF closed = Panic \/ extract_fails(closed, source)
          THEN [kind |-> "abort"]
          ELSE [kind |-> "ok", state |-> get(n, closed.state).index,
                captures |-> extract(closed, source)]

-----------------------------------------------------------------------------
(* One process call: Process starts it on an input, ProcessChar is one     *)
(* round of the loop over the characters, Select is the code after the     *)
(* loop.  string holds the characters of the input, pos the index of the   *)
(* character the loop is at, thread the thread max_by selected.  The order *)
(* function is an argument of process that only max_by calls: the model    *)
(* draws it there, and ord holds it from then on.                          *)

Strings == UNION {[1 .. k -> Alphabet] : k \in 0 .. MaxLen}

NoResult == [kind |-> "none"]

Process(s) ==
  /\ pc = "build"
  /\ pc' = "run"
  /\ string' = s
  /\ ord' = None
  /\ threads' = <<Thread_new>>
  /\ pos' = 0
  /\ thread' = None
  /\ result' = NoResult
  /\ ret' = None
  /\ UNCHANGED <<nfa, calls, probe>>

\* a loop that goes on when no thread is left
ProcessChar_going_on ==
  /\ pc = "run"
  /\ pos < Len(string)
  /\ threads' = process_char(nfa, threads, string[pos + 1], pos)
  /\ pos' = pos + 1
  /\ UNCHANGED <<nfa, ret, pc, string, ord, thread, result, calls, probe>>

\* a loop that stays at the character it has just run a round on
ProcessChar_staying ==
  /\ pc = "run"
  /\ pos < Len(string)
  /\ LET next_threads == process_char(nfa, threads, string[pos + 1], pos) IN
       /\ threads' = next_threads
       /\ IF \E k \in DOMAIN next_threads : next_threads[k] = Panic
          THEN pc' = "done" /\ result' = [kind |-> "abort"] /\ pos' = pos
          ELSE IF next_threads = <<>>
          THEN /\ pc' = "done"
               /\ result' = [kind |-> "couldnt_process"]
               /\ pos' = pos
          ELSE pc' = "run" /\ result' = result /\ pos' = pos
  /\ UNCHANGED <<nfa, ret, string, ord, thread, calls, probe>>

ProcessChar ==
  /\ pc = "run"
  /\ pos < Len(string)
  /\ LET next_threads == process_char(nfa, threads, string[pos + 1], pos) IN
       /\ threads' = next_threads
       /\ IF \E k \in DOMAIN next_threads : next_threads[k] = Panic
          THEN pc' = "done" /\ result' = [kind |-> "abort"] /\ pos' = pos
          ELSE IF next_threads = <<>>
          THEN /\ pc' = "done"
               /\ result' = [kind |-> "couldnt_process"]
               /\ pos' = pos
          ELSE pc' = "run" /\ result' = result /\ pos' = pos + 1
  /\ UNCHANGED <<nfa, ret, string, ord, thread, calls, probe>>

Select(o) ==
  /\ pc = "run"
  /\ pos = Len(string)
  /\ ord' = Some(o)
  /\ LET selected == max_by(accepting(nfa, threads), o) IN
       /\ thread' = selected
       /\ result' = finish(nfa, selected, Utf8(string))
  /\ pc' = "done"
  /\ UNCHANGED <<nfa, ret, string, threads, pos, calls, probe>>

\* the call has returned; the compiler or the next caller goes on
Return ==
  /\ pc = "done"
  /\ pc' = "build"
  /\ string' = <<>>
  /\ ord' = None
  /\ threads' = <<>>
  /\ pos' = 0
  /\ thread' = None
  /\ result' = NoResult
  /\ UNCHANGED <<nfa, ret, calls, probe>>

-----------------------------------------------------------------------------
(* calls holds the process calls of several callers over one automaton,    *)
(* probe one evaluation of the character classes; neither is in use while  *)
(* the compiler builds the automaton.                                      *)

\* the callers that share a built automaton
Callers == {"first", "second"}

IdleCall ==
  [pc |-> "idle", string |-> <<>>, ord |-> None, threads |-> <<>>,
   pos |-> 0, result |-> NoResult]

NoCalls == [c \in Callers |-> IdleCall]

NoProbe == [kind |-> "none"]

Init ==
  /\ nfa = NFA_new
  /\ ret = None
  /\ pc = "build"
  /\ string = <<>>
  /\ ord = None
  /\ threads = <<>>
  /\ pos = 0
  /\ thread = None
  /\ result = NoResult
  /\ calls = NoCalls
  /\ probe = NoProbe

Next ==
  \/ \E index \in Indices(nfa), chars \in Classes : Put(index, chars)
  \/ \E index \in Indices(nfa), child \in Indices(nfa) : PutState(index, child)
  \/ \E index \in Indices(nfa) : Acceptance(index)
  \/ \E index \in Indices(nfa) : StartCapture(index)
  \/ \E index \in Indices(nfa) : EndCapture(index)
  \/ \E index \in Indices(nfa), m \in Payloads : Metadata(index, m)
  \/ \E s \in Strings : Process(s)
  \/ ProcessChar
  \/ \E o \in Orders : Select(o)
  \/ Return

Spec == Init /\ [][Next]_vars

-----------------------------------------------------------------------------
(* The language of the automaton, stated on sets of states.                *)

Targets(n, index) ==
  {get(n, index).next_states[k] : k \in DOMAIN get(n, index).next_states}

\* the states some path from state 0 ends in after the first k characters
RECURSIVE Reach(_, _, _)
Reach(n, chars, k) ==
  IF k = 0 THEN {0}
  ELSE {t \in Indices(n) :
          /\ matches(get(n, t).chars, chars[k])
          /\ \E s \in Reach(n, chars, k - 1) : t \in Targets(n, s)}

Accepted(n, chars) ==
  {s \in Reach(n, chars, Len(chars)) : get(n, s).acceptance}

Returned == pc = "done"

\* C1: process returns a match if and only if some path from state 0 over
\* the whole input ends in an acceptance state, and the state it returns
\* is the end of such a path.
C1_MatchIffAcceptingPath ==
  Returned =>
    /\ result.kind = "ok" <=> Accepted(nfa, string) # {}
    /\ result.kind = "ok" => result.state \in Accepted(nfa, string)

\* C2: the thread process selects among the accepting threads, and the
\* state it returns, has the largest value of the caller's order among the
\* states of all accepting threads.
C2_SelectsMaximum ==
  (Returned /\ ord # None) =>
    /\ thread = None <=> accepting(nfa, threads) = <<>>
    /\ thread # None =>
         /\ \E k \in DOMAIN threads :
              threads[k] = thread[1] /\ get(nfa, threads[k].state).acceptance
         /\ \A k \in DOMAIN threads :
              get(nfa, threads[k].state).acceptance =>
                OrdValue(ord[1], thread[1].state)
                  >= OrdValue(ord[1], threads[k].state)
    /\ result.kind = "ok" => result.state = thread[1].state

\* C2 witness: two threads accept in different states, and the other order
\* would have returned the other state.
C2_Witness ==
  /\ Returned /\ ord # None /\ result.kind = "ok"
  /\ \E o \in Orders \ {ord[1]} :
       max_by(accepting(nfa, threads), o)[1].state # result.state

\* the positions of the input at which no path from state 0 goes on
DeadAt(n, chars) == {k \in 1 .. Len(chars) : Reach(n, chars, k) = {}}

\* C3: process returns the processing failure exactly when, at some
\* character, no live thread has a matching transition; it stops at the
\* first such character, with no thread left, whatever follows it.
C3_FailsAtFirstDeadPosition ==
  Returned =>
    /\ result.kind = "couldnt_process" <=> DeadAt(nfa, string) # {}
    /\ result.kind = "couldnt_process" =>
         /\ pos + 1 = Min(DeadAt(nfa, string))
         /\ threads = <<>>
    /\ DeadAt(nfa, string) # {} => result.kind # "no_acceptance"

\* C3 witness: the failure is reported before the last character, and at
\* the last character.
C3_Witness ==
  /\ Returned /\ result.kind = "couldnt_process"
  /\ pos >= 1
  /\ pos + 1 < Len(string)

C3_WitnessLast ==
  /\ Returned /\ result.kind = "couldnt_process"
  /\ pos >= 1
  /\ pos + 1 = Len(string)

\* C4: process returns the no-acceptance failure exactly when every
\* character was consumed with a thread alive and no live thread is in an
\* acceptance state.
C4_NoAcceptanceIffNoneAccepts ==
  Returned =>
    (result.kind = "no_acceptance" <=>
       /\ pos = Len(string)
       /\ threads # <<>>
       /\ Reach(nfa, string, Len(string)) # {}
       /\ Accepted(nfa, string) = {}
       /\ \A k \in DOMAIN threads : ~nfa.acceptance[threads[k].state + 1])

\* C4 witness: the input stops in the state just before a self-looping
\* acceptance state.
C4_Witness ==
  /\ Returned /\ result.kind = "no_acceptance"
  /\ Len(string) >= 1
  /\ \E k \in DOMAIN threads :
       \E g \in Targets(nfa, threads[k].state) :
         /\ g # threads[k].state
         /\ g \in Targets(nfa, g)
         /\ get(nfa, g).acceptance

\* C4 witness: the empty input on an automaton whose start state does not
\* accept.
C4_WitnessEmpty ==
  /\ Returned /\ result.kind = "no_acceptance"
  /\ string = <<>>
  /\ \E s \in Indices(nfa) : get(nfa, s).acceptance

\* C5: a put from a state that already has a transition to a state of an
\* equal class returns that target and leaves the automaton as it was; a
\* second put with the same arguments returns the same index and changes
\* nothing, so the two calls together create at most one state.
C5_PutIdempotent ==
  [][\A index \in Indices(nfa), chars \in Classes :
       Put(index, chars) =>
         /\ EqualTargets(nfa, index, chars) # {} =>
              /\ nfa' = nfa
              /\ \E k \in EqualTargets(nfa, index, chars) :
                   ret' = Some(get(nfa, index).next_states[k])
         /\ LET again == put(nfa', index, chars) IN
              /\ Some(again.ret) = ret'
              /\ again.nfa = nfa'
              /\ NumStates(again.nfa) <= NumStates(nfa) + 1]_vars

\* C5 witness: put has returned a state that is not the newest one, that
\* is, an existing target.
C5_Witness ==
  /\ pc = "build"
  /\ ret # None
  /\ ret[1] < NumStates(nfa) - 1

-----------------------------------------------------------------------------
(* Captures.                                                               *)

\* the input as process sees it
Source == Utf8(string)

\* the character positions at which the selected thread opened and closed
\* its captures, the capture still open closing at the end of the input
WinnerCharRanges ==
  IF thread[1].capture_begin # None
  THEN Append(thread[1].captures,
              <<thread[1].capture_begin[1], Len(string)>>)
  ELSE thread[1].captures

\* the characters of the input from position begin up to position end
Chars(begin, end) == Utf8(SubSeq(string, begin + 1, end))

\* C6: each returned capture is the input's characters from the position
\* at which the winning thread opened the capture up to the position at
\* which it closed it.
C6_CaptureExactness ==
  (Returned /\ result.kind = "ok") =>
    /\ Len(result.captures) = Len(WinnerCharRanges)
    /\ \A k \in DOMAIN WinnerCharRanges :
         result.captures[k]
           = Chars(WinnerCharRanges[k][1], WinnerCharRanges[k][2])

\* the threads the characters of one round come from: for every thread in
\* order, one entry per transition of its state that matches char
RECURSIVE OriginsFrom(_, _, _, _)
OriginsFrom(n, ts, char, i) ==
  IF i > Len(ts) THEN <<>>
  ELSE LET found == MatchingTargets(n, get(n, ts[i].state), char) IN
       [k \in 1 .. Len(found) |-> [parent |-> i, target |-> found[k]]]
         \o OriginsFrom(n, ts, char, i + 1)

Origins(n, ts, char) == OriginsFrom(n, ts, char, 1)

\* C7: in a round of process, an advance of a thread from a state to
\* itself leaves its closed captures and its open capture as they were; a
\* capture is closed only by an advance out of an end-marked state to a
\* state of a strictly greater index, and then at the current position.
C7_SelfLoopNeverCloses ==
  [][(pc = "run" /\ pos < Len(string)) =>
       LET from == Origins(nfa, threads, string[pos + 1]) IN
       /\ Len(threads') = Len(from)
       /\ \A i \in DOMAIN from :
            LET old == threads[from[i].parent]
                new == threads'[i]
            IN /\ new.state = from[i].target
               /\ new.state = old.state =>
                    /\ new.captures = old.captures
                    /\ old.capture_begin # None =>
                         new.capture_begin = old.capture_begin
               /\ new.captures # old.captures =>
                    /\ nfa.end_capture[old.state + 1]
                    /\ new.state > old.state
                    /\ Len(new.captures) = Len(old.captures) + 1
                    /\ new.captures[Len(new.captures)][2] = pos
                    /\ new.capture_begin = None]_vars

\* C7 witness: a thread whose one capture was opened on entering the only
\* start-marked state, which is end-marked and loops on itself and
\* otherwise leads to higher states only, and was closed two or more
\* characters later: the thread went round the loop with the capture open.
C7_Witness ==
  /\ pc = "run"
  /\ \E k \in DOMAIN threads, s \in Indices(nfa) :
       /\ s \in Targets(nfa, s)
       /\ \A t \in Targets(nfa, s) : t >= s
       /\ \A u \in Indices(nfa) :
            /\ nfa.start_capture[u + 1] <=> u = s
            /\ nfa.end_capture[u + 1] <=> u = s
       /\ threads[k].state > s
       /\ Len(threads[k].captures) = 1
       /\ threads[k].captures[1][2] >= threads[k].captures[1][1] + 2

\* the ranges run left to right without overlap
Ordered(ranges) ==
  \A k \in DOMAIN ranges :
    /\ ranges[k][1] <= ranges[k][2]
    /\ k < Len(ranges) => ranges[k][2] <= ranges[k + 1][1]

\* the ranges process extracts: those of the selected thread, closed at
\* string.len() if a capture is open
WinnerRanges ==
  IF thread[1].capture_begin # None
  THEN Append(thread[1].captures,
              <<thread[1].capture_begin[1], Len(Source)>>)
  ELSE thread[1].captures

\* C8: in every thread at every step the closed ranges are in the order
\* they closed, left to right over the input without overlap, a capture
\* still open begins no earlier than the last one closed, and process
\* returns the substrings in the order of the ranges.
C8_RangesOrdered ==
  /\ \A k \in DOMAIN threads :
       /\ Ordered(threads[k].captures)
       /\ \A j \in DOMAIN threads[k].captures :
            /\ threads[k].captures[j][2] <= pos
            /\ threads[k].capture_begin # None =>
                 threads[k].captures[j][2] <= threads[k].capture_begin[1]
  /\ (Returned /\ result.kind = "ok") =>
       /\ Ordered(WinnerRanges)
       /\ Len(result.captures) = Len(WinnerRanges)
       /\ \A j \in DOMAIN WinnerRanges :
            result.captures[j]
              = slice(Source, WinnerRanges[j][1], WinnerRanges[j][2])

\* C8 witness: a match with two captures, the second not empty.
C8_Witness ==
  /\ Returned /\ result.kind = "ok"
  /\ Len(result.captures) = 2
  /\ result.captures[2] # <<>>

\* C9: an open capture of the winning thread is closed at the end of the
\* input: the last returned capture is the input from the position the
\* capture opened at to its end, after the captures closed before.
C9_OpenCaptureClosedAtEnd ==
  (Returned /\ thread # None /\ thread[1].capture_begin # None) =>
    /\ result.kind = "ok"
    /\ Len(result.captures) = Len(thread[1].captures) + 1
    /\ result.captures[Len(result.captures)]
         = Chars(thread[1].capture_begin[1], Len(string))

\* C10: a process call ends with a match or one of the two failures.
C10_NeverAborts ==
  Returned => result.kind \in {"ok", "couldnt_process", "no_acceptance"}

-----------------------------------------------------------------------------
(* The character classes alone: one evaluation of the constructors and of  *)
(* matches, on the characters of a string handed to valid and invalid, a   *)
(* character x handed to valid_char and invalid_char, and a character c    *)
(* that is looked up.                                                      *)

\* the largest number of characters of a string handed to valid or invalid
MaxSetLen == 3

\* the codepoints looked at: the two sides of the edges of the two masks
\* (1, 64, 65, 128), codepoint 0, the last ASCII codepoint 127, and two
\* codepoints of the set-backed range
Codepoints == {0, 1, 64, 65, 127, 128, 129, 233}

\* CharSet::new
NewSet ==
  /\ probe = NoProbe
  /\ probe' = [kind |-> "set", chars |-> <<>>, set |-> CharSet_new]
  /\ UNCHANGED <<nfa, ret, pc, string, ord, threads, pos, thread, result,
                 calls>>

\* one more character is inserted, as in the loop of str_to_set
Insert(char) ==
  /\ probe.kind = "set"
  /\ Len(probe.chars) < MaxSetLen
  /\ probe' = [probe EXCEPT !.chars = Append(@, char),
                            !.set = insert(@, char)]
  /\ UNCHANGED <<nfa, ret, pc, string, ord, threads, pos, thread, result,
                 calls>>

\* c is looked up in the set and in the classes made of the inserted
\* characters and of x
Evaluate(x, c) ==
  /\ probe.kind = "set"
  /\ probe' =
       [kind |-> "evaluated", chars |-> probe.chars, x |-> x, c |-> c,
        set_contains |-> contains(probe.set, c),
        any_matches |-> matches(any, c),
        valid_matches |-> matches(valid(probe.chars), c),
        invalid_matches |-> matches(invalid(probe.chars), c),
        valid_char_matches |-> matches(valid_char(x), c),
        invalid_char_matches |-> matches(invalid_char(x), c),
        valid_char_class |-> valid_char(x),
        invalid_char_class |-> invalid_char(x)]
  /\ UNCHANGED <<nfa, ret, pc, string, ord, threads, pos, thread, result,
                 calls>>

\* the values of an evaluation are dropped
Forget ==
  /\ probe.kind = "evaluated"
  /\ probe' = NoProbe
  /\ UNCHANGED <<nfa, ret, pc, string, ord, threads, pos, thread, result,
                 calls>>

NextChars ==
  \/ NewSet
  \/ \E char \in Codepoints : Insert(char)
  \/ \E x \in Codepoints, c \in Codepoints : Evaluate(x, c)
  \/ Forget

SpecChars == Init /\ [][NextChars]_vars

Evaluated == probe.kind = "evaluated"

\* the characters of a string
CharsOf(chars) == {chars[k] : k \in DOMAIN chars}

\* C13: for every codepoint c looked up, any matches c; valid(S) matches c
\* exactly when c is a character of S and invalid(S) exactly when it is
\* not; valid_char(x) matches c exactly when c = x and invalid_char(x)
\* exactly when c # x; a CharSet contains c exactly when c was inserted.
C13_MatchesExactly ==
  Evaluated =>
    /\ probe.any_matches
    /\ probe.valid_matches <=> probe.c \in CharsOf(probe.chars)
    /\ probe.invalid_matches <=> probe.c \notin CharsOf(probe.chars)
    /\ probe.valid_char_matches <=> probe.c = probe.x
    /\ probe.invalid_char_matches <=> probe.c # probe.x
    /\ probe.set_contains <=> probe.c \in CharsOf(probe.chars)

\* C13 witness: codepoint 128 is looked up in a set that holds the
\* codepoints 0 and 64 and not 128, against the single character 128.
C13_Witness ==
  /\ Evaluated
  /\ probe.c = 128 /\ probe.x = 128
  /\ CharsOf(probe.chars) = {0, 64}
  /\ probe.valid_char_matches /\ ~probe.valid_matches

\* C13 witness: codepoint 0 is looked up in a set it was inserted in.
C13_WitnessZero ==
  /\ Evaluated
  /\ probe.c = 0 /\ probe.x = 1
  /\ 0 \in CharsOf(probe.chars)
  /\ probe.valid_matches /\ probe.invalid_char_matches

\* C19: valid_char(x) and invalid_char(x) are of the packed Ascii form for
\* every ASCII codepoint x (0 to 127) and of the set-backed form for every
\* codepoint above 127.
C19_PackedExactlyForAscii ==
  Evaluated =>
    IF probe.x <= 127
    THEN /\ probe.valid_char_class.tag = "Ascii"
         /\ probe.invalid_char_class.tag = "Ascii"
    ELSE /\ probe.valid_char_class.tag = "ValidChars"
         /\ probe.invalid_char_class.tag = "InvalidChars"

-----------------------------------------------------------------------------
(* The state vector and the flag mirrors under the construction calls.     *)

\* every state sits at the position of its index, and state 0 has the
\* class of the start state
IndicesInPlace(n) ==
  /\ NumStates(n) >= 1
  /\ \A i \in Indices(n) : get(n, i).index = i
  /\ get(n, 0).chars = any

\* C14: the state at position i has index i and state 0 is the start state
\* of new(); no step removes a state or changes the index or the class of
\* an existing state; only put creates a state, and one at a time; the
\* index put returns is a transition target the source state already had,
\* or the number of states before the call.
C14_IndicesStable ==
  [][/\ IndicesInPlace(nfa)
     /\ IndicesInPlace(nfa')
     /\ NumStates(nfa') >= NumStates(nfa)
     /\ \A i \in Indices(nfa) :
          /\ get(nfa', i).index = get(nfa, i).index
          /\ get(nfa', i).chars = get(nfa, i).chars
     /\ NumStates(nfa') # NumStates(nfa) =>
          /\ NumStates(nfa') = NumStates(nfa) + 1
          /\ \E index \in Indices(nfa), chars \in Classes : Put(index, chars)
     /\ \A index \in Indices(nfa), chars \in Classes :
          Put(index, chars) =>
            /\ ret' # None
            /\ \/ ret'[1] \in Targets(nfa, index) /\ nfa' = nfa
               \/ /\ ret'[1] = NumStates(nfa)
                  /\ ret'[1] \notin Targets(nfa, index)
                  /\ NumStates(nfa') = NumStates(nfa) + 1
                  /\ get(nfa', ret'[1]).chars = chars]_vars

\* C14 witness: put has returned state 1 of a full automaton, a target its
\* source state already had, after a put_state added a transition.
C14_Witness ==
  /\ pc = "build"
  /\ NumStates(nfa) = MaxStates
  /\ ret = Some(1)
  /\ BackEdgeCount(nfa) > 0

\* C14 witness: put has returned the index of the state it created.
C14_WitnessCreated ==
  /\ pc = "build"
  /\ NumStates(nfa) = MaxStates
  /\ ret = Some(MaxStates - 1)
  /\ get(nfa, MaxStates - 1).next_states = <<>>
  /\ \A i \in Indices(nfa) : (MaxStates - 1) \in Targets(nfa, i) <=> i = 1

\* the three mirrors hold the flags of the states, one entry per state
MirrorsAgree(n) ==
  /\ Len(n.acceptance) = NumStates(n)
  /\ Len(n.start_capture) = NumStates(n)
  /\ Len(n.end_capture) = NumStates(n)
  /\ \A i \in Indices(n) :
       /\ n.acceptance[i + 1] = get(n, i).acceptance
       /\ n.start_capture[i + 1] = get(n, i).start_capture
       /\ n.end_capture[i + 1] = get(n, i).end_capture

\* C15: the three flat flag arrays have one entry per state and equal the
\* flags stored in the states, before and after every step; a flag that
\* is set stays set.
C15_MirrorsInLockstep ==
  [][/\ MirrorsAgree(nfa)
     /\ MirrorsAgree(nfa')
     /\ \A i \in Indices(nfa) :
          /\ get(nfa, i).acceptance => get(nfa', i).acceptance
          /\ get(nfa, i).start_capture => get(nfa', i).start_capture
          /\ get(nfa, i).end_capture => get(nfa', i).end_capture
          /\ nfa.acceptance[i + 1] => nfa'.acceptance[i + 1]
          /\ nfa.start_capture[i + 1] => nfa'.start_capture[i + 1]
          /\ nfa.end_capture[i + 1] => nfa'.end_capture[i + 1]]_vars

\* C15 witness: a state created by put carries the three flags, in an
\* automaton that a later put has grown.
C15_Witness ==
  /\ NumStates(nfa) = MaxStates
  /\ get(nfa, 1).acceptance /\ nfa.acceptance = <<FALSE, TRUE, FALSE>>
  /\ get(nfa, 1).start_capture /\ nfa.start_capture = <<FALSE, TRUE, FALSE>>
  /\ get(nfa, 1).end_capture /\ nfa.end_capture = <<FALSE, TRUE, FALSE>>
  /\ ret = Some(2)

-----------------------------------------------------------------------------
(* The captures of a thread over one round of process.                     *)

\* process is in its loop, about to run a round on the character at pos
InRound == pc = "run" /\ pos < Len(string)

\* C16: a thread has at most one open capture; an advance into a
\* start-marked state of a thread that has an open capture leaves the
\* position the capture opened at as it was (still open, or closed in
\* this advance as the begin of the recorded range), so a thread staying
\* in a start-marked state keeps the position of its first entry.
C16_CapturesNeverNest ==
  [][InRound =>
       LET from == Origins(nfa, threads, string[pos + 1]) IN
       /\ Len(threads') = Len(from)
       /\ \A i \in DOMAIN from :
            LET old == threads[from[i].parent]
                new == threads'[i]
            IN /\ Len(new.capture_begin) <= 1
               /\ (old.capture_begin # None
                     /\ nfa.start_capture[new.state + 1]) =>
                    \/ /\ new.capture_begin = old.capture_begin
                       /\ new.captures = old.captures
                    \/ /\ new.capture_begin = None
                       /\ new.captures
                            = Append(old.captures,
                                     <<old.capture_begin[1], pos>>)
               /\ (old.capture_begin # None
                     /\ nfa.start_capture[new.state + 1]
                     /\ new.state = old.state) =>
                    new.capture_begin = old.capture_begin]_vars

\* C16 witness: a thread has stayed in a start-marked state that loops to
\* itself, and its capture is still open at the position of its first
\* entry, two or more characters back.
C16_Witness ==
  /\ pc = "run"
  /\ \E k \in DOMAIN threads :
       /\ threads[k].state \in Targets(nfa, threads[k].state)
       /\ nfa.start_capture[threads[k].state + 1]
       /\ threads[k].capture_begin # None
       /\ threads[k].capture_begin[1] + 2 <= pos

\* the capture rule on an advance of old from S to T at position p, with
\* new the advanced thread: the open check, then the close check on what
\* the open check left
CaptureRule(n, old, S, T, p, new) ==
  LET opens == old.capture_begin = None /\ n.start_capture[T + 1]
      begin == IF opens THEN Some(p) ELSE old.capture_begin
      closes == begin # None /\ n.end_capture[S + 1] /\ T > S
  IN /\ new.state = T
     /\ new.capture_begin = IF closes THEN None ELSE begin
     /\ new.captures
          = IF closes THEN Append(old.captures, <<begin[1], p>>)
            ELSE old.captures

\* C17: every advance of a thread from S to T at position p changes its
\* captures exactly by the capture rule, the open check first and the
\* close check on its result.  From an end-marked S to a start-marked
\* T > S, a thread without an open capture records the empty range (p, p)
\* and has no capture open; a thread with an open capture closes it at p
\* and opens none for T.
C17_CaptureRuleExact ==
  [][InRound =>
       LET from == Origins(nfa, threads, string[pos + 1]) IN
       /\ Len(threads') = Len(from)
       /\ \A i \in DOMAIN from :
            LET old == threads[from[i].parent]
                new == threads'[i]
                S == old.state
                T == from[i].target
            IN /\ CaptureRule(nfa, old, S, T, pos, new)
               /\ (nfa.end_capture[S + 1] /\ nfa.start_capture[T + 1]
                     /\ T > S) =>
                    /\ new.capture_begin = None
                    /\ new.captures
                         = Append(old.captures,
                                  IF old.capture_begin = None
                                  THEN <<pos, pos>>
                                  ELSE <<old.capture_begin[1], pos>>)]_vars

\* C17 witness: a thread without an open capture has advanced from an
\* end-marked state into a start-marked state of a greater index: its
\* last range is the empty range at the position of the advance.
C17_Witness ==
  /\ pc = "run"
  /\ \E k \in DOMAIN threads :
       /\ nfa.start_capture[threads[k].state + 1]
       /\ threads[k].capture_begin = None
       /\ threads[k].captures # <<>>
       /\ threads[k].captures[Len(threads[k].captures)]
            = <<pos - 1, pos - 1>>

\* C17 witness: a thread with an open capture has made that advance: the
\* capture is closed at the position of the advance and none is open.
C17_WitnessOpen ==
  /\ pc = "run"
  /\ \E k \in DOMAIN threads :
       /\ nfa.start_capture[threads[k].state + 1]
       /\ threads[k].capture_begin = None
       /\ threads[k].captures # <<>>
       /\ threads[k].captures[Len(threads[k].captures)][2] = pos - 1
       /\ threads[k].captures[Len(threads[k].captures)][1] < pos - 1

\* C18: in a round, a thread with k matching transitions has exactly k
\* successors, in the order of the threads and of the transitions: none
\* for k = 0, and otherwise each a copy of the thread as it was before
\* the round, advanced by the capture rule on its own, and no two
\* successors of one thread in the same state.
C18_OneSuccessorPerMatch ==
  [][InRound =>
       LET char == string[pos + 1]
           from == Origins(nfa, threads, char)
           Matching(k) ==
             {m \in DOMAIN get(nfa, threads[k].state).next_states :
                matches(
                  get(nfa, get(nfa, threads[k].state).next_states[m]).chars,
                  char)}
       IN
       /\ Len(threads') = Len(from)
       /\ \A k \in DOMAIN threads :
            Cardinality({i \in DOMAIN from : from[i].parent = k})
              = Cardinality(Matching(k))
       /\ \A i \in DOMAIN from :
            LET old == threads[from[i].parent]
            IN CaptureRule(nfa, old, old.state, from[i].target, pos,
                           threads'[i])
       /\ \A i \in DOMAIN from, j \in DOMAIN from :
            (i # j /\ from[i].parent = from[j].parent) =>
              threads'[i].state # threads'[j].state]_vars

-----------------------------------------------------------------------------
(* Termination of process.  The call is a loop on one OS thread: once it   *)
(* has started, its next round, and after the last round its selection,   *)
(* is run; this is the weak fairness of ProcessChar and Select.  The       *)
(* automatons are those of Spec without capture marks and payloads, which  *)
(* the loop does not read: every graph of the bounds, with its self-loops  *)
(* and cycles.                                                             *)

NextGraph ==
  \/ \E index \in Indices(nfa), chars \in Classes : Put(index, chars)
  \/ \E index \in Indices(nfa), child \in Indices(nfa) : PutState(index, child)
  \/ \E index \in Indices(nfa) : Acceptance(index)
  \/ \E s \in Strings : Process(s)
  \/ ProcessChar
  \/ \E o \in Orders : Select(o)
  \/ Return

SpecTerminates ==
  /\ Init
  /\ [][NextGraph]_vars
  /\ WF_vars(ProcessChar)
  /\ WF_vars(\E o \in Orders : Select(o))

\* C20: a process call that has started returns; it never is at a position
\* after the end of the input, and each of its steps is a round that ends
\* the call or moves to the next character, or the selection that ends it.
C20_ProcessTerminates ==
  /\ [](pc = "run" => pos <= Len(string))
  /\ [][pc = "run" => (pc' = "done" \/ (pc' = "run" /\ pos' = pos + 1))]_vars
  /\ (pc = "run") ~> (pc = "done")

\* C20 witness: a call has returned a match after rounds over an input of
\* the greatest length, the last of them through a cycle of the graph: the
\* winning thread is in a state that is among its own transition targets.
C20_Witness ==
  /\ Returned
  /\ result.kind = "ok"
  /\ pos = MaxLen
  /\ thread # None
  /\ thread[1].state \in Targets(nfa, thread[1].state)

-----------------------------------------------------------------------------
(* Several process calls over one built automaton.  process takes &self:   *)
(* the callers share the automaton, and each call has its own string,      *)
(* order function, threads and position.  A step of a call is one round    *)
(* of its loop or its selection; the steps of the calls interleave in any  *)
(* order.  The automatons are those the tests of the repository build,     *)
(* and one with two paths that join in a looping acceptance state.         *)

\* a chain of put calls from a state: the automaton and the last index
RECURSIVE put_path(_, _, _)
put_path(n, from, classes) ==
  IF classes = <<>> THEN [nfa |-> n, ret |-> from]
  ELSE LET made == put(n, from, Head(classes))
       IN put_path(made.nfa, made.ret, Tail(classes))

\* "new" and any three characters, both accepting
multiple_solutions ==
  LET c1 == put_path(NFA_new, 0,
                     <<valid(<<110>>), valid(<<101>>), valid(<<119>>)>>)
      c2 == put_path(NFA_acceptance(c1.nfa, c1.ret), 0,
                     <<invalid(<<>>), invalid(<<>>), invalid(<<>>)>>)
  IN NFA_acceptance(c2.nfa, c2.ret)

\* "new", captured from its first state on
captures_nfa ==
  LET a == put(NFA_new, 0, valid(<<110>>))
      c == put_path(a.nfa, a.ret, <<valid(<<101>>), valid(<<119>>)>>)
  IN NFA_end_capture(
       NFA_start_capture(NFA_acceptance(c.nfa, c.ret), a.ret), c.ret)

\* "p/", one or more characters other than '/', captured, and "/c"
capture_mid_match ==
  LET b == put_path(NFA_new, 0, <<valid_char(112), valid_char(47)>>)
      c == put(b.nfa, b.ret, invalid_char(47))
      e == put_path(c.nfa, c.ret, <<valid_char(47), valid_char(99)>>)
  IN NFA_end_capture(
       NFA_start_capture(
         NFA_acceptance(put_state(e.nfa, c.ret, c.ret), e.ret), c.ret),
       c.ret)

\* 'n' into a capturing state a and any character into b, a transition
\* from a to b and a loop on b: two threads with different captures meet
\* in the acceptance state b
joined_paths ==
  LET a == put(NFA_new, 0, valid(<<110>>))
      b == put(a.nfa, 0, invalid(<<>>))
      looped == put_state(put_state(b.nfa, a.ret, b.ret), b.ret, b.ret)
  IN NFA_start_capture(NFA_acceptance(looped, b.ret), a.ret)

BuiltAutomata ==
  {multiple_solutions, captures_nfa, capture_mid_match, joined_paths}

\* the inputs of the tests: "new" and "p/123/c"
TestInputs == {<<110, 101, 119>>, <<112, 47, 49, 50, 51, 47, 99>>}

Prefixes(s) == {SubSeq(s, 1, k) : k \in 0 .. Len(s)}

\* the inputs of the calls: the inputs of the tests, what they begin
\* with, and "p/e-acute/c" with its two-byte character
CallStrings ==
  UNION {Prefixes(s) : s \in TestInputs} \cup {<<112, 47, 233, 47, 99>>}

\* the order functions of the callers, with one that gives every state
\* the same value
CallOrders == Orders \cup {"constant"}

\* process as a function of its arguments, from position p on
RECURSIVE process_from(_, _, _, _, _)
process_from(n, ts, s, p, o) ==
  IF p = Len(s)
  THEN finish(n, max_by(accepting(n, ts), o), Utf8(s))
  ELSE LET next_threads == process_char(n, ts, s[p + 1], p) IN
       IF \E k \in DOMAIN next_threads : next_threads[k] = Panic
       THEN [kind |-> "abort"]
       ELSE IF next_threads = <<>> THEN [kind |-> "couldnt_process"]
       ELSE process_from(n, next_threads, s, p + 1, o)

process(n, s, o) == process_from(n, <<Thread_new>>, s, 0, o)

CallProcess(c, s, o) ==
  /\ calls[c].pc = "idle"
  /\ calls' = [calls EXCEPT ![c] =
                 [pc |-> "run", string |-> s, ord |-> Some(o),
                  threads |-> <<Thread_new>>, pos |-> 0,
                  result |-> NoResult]]
  /\ UNCHANGED <<nfa, ret, pc, string, ord, threads, pos, thread, result,
                 probe>>

\* a round that leaves its threads to every call in its loop
CallChar_on_shared_threads(c) ==
  /\ calls[c].pc = "run"
  /\ calls[c].pos < Len(calls[c].string)
  /\ LET call == calls[c]
         next_threads ==
           process_char(nfa, call.threads, call.string[call.pos + 1],
                        call.pos)
     IN calls' =
          [d \in Callers |->
             IF d = c
             THEN IF next_threads = <<>>
                  THEN [call EXCEPT !.pc = "done", !.threads = next_threads,
                                    !.result = [kind |-> "couldnt_process"]]
                  ELSE [call EXCEPT !.threads = next_threads,
                                    !.pos = @ + 1]
             ELSE IF calls[d].pc = "run"
                  THEN [calls[d] EXCEPT !.threads = next_threads]
                  ELSE calls[d]]
  /\ UNCHANGED <<nfa, ret, pc, string, ord, threads, pos, thread, result,
                 probe>>

CallChar(c) ==
  /\ calls[c].pc = "run"
  /\ calls[c].pos < Len(calls[c].string)
  /\ LET call == calls[c]
         next_threads ==
           process_char(nfa, call.threads, call.string[call.pos + 1],
                        call.pos)
     IN calls' =
          [calls EXCEPT ![c] =
             IF \E k \in DOMAIN next_threads : next_threads[k] = Panic
             THEN [call EXCEPT !.pc = "done", !.threads = next_threads,
                               !.result = [kind |-> "abort"]]
             ELSE IF next_threads = <<>>
             THEN [call EXCEPT !.pc = "done", !.threads = next_threads,
                               !.result = [kind |-> "couldnt_process"]]
             ELSE [call EXCEPT !.threads = next_threads, !.pos = @ + 1]]
  /\ UNCHANGED <<nfa, ret, pc, string, ord, threads, pos, thread, result,
                 probe>>

\* the accepting threads no accepting thread has a greater value than
Maxima(ts, o) ==
  {k \in DOMAIN ts :
     \A j \in DOMAIN ts : OrdValue(o, ts[j].state) <= OrdValue(o, ts[k].state)}

\* a selection that takes any of the threads of the greatest value
CallSelect_of_any_maximum(c) ==
  /\ calls[c].pc = "run"
  /\ calls[c].pos = Len(calls[c].string)
  /\ LET call == calls[c]
         kept == accepting(nfa, call.threads)
     IN \E selected \in
              IF kept = <<>> THEN {None}
              ELSE {Some(kept[k]) : k \in Maxima(kept, call.ord[1])} :
          calls' =
            [calls EXCEPT ![c] =
               [call EXCEPT !.pc = "done",
                            !.result =
                              finish(nfa, selected, Utf8(call.string))]]
  /\ UNCHANGED <<nfa, ret, pc, string, ord, threads, pos, thread, result,
                 probe>>

CallSelect(c) ==
  /\ calls[c].pc = "run"
  /\ calls[c].pos = Len(calls[c].string)
  /\ LET call == calls[c]
         selected == max_by(accepting(nfa, call.threads), call.ord[1])
     IN calls' =
          [calls EXCEPT ![c] =
             [call EXCEPT !.pc = "done",
                          !.result =
                            finish(nfa, selected, Utf8(call.string))]]
  /\ UNCHANGED <<nfa, ret, pc, string, ord, threads, pos, thread, result,
                 probe>>

\* the caller has its result and drops it
CallReturn(c) ==
  /\ calls[c].pc = "done"
  /\ calls' = [calls EXCEPT ![c] = IdleCall]
  /\ UNCHANGED <<nfa, ret, pc, string, ord, threads, pos, thread, result,
                 probe>>

InitCalls ==
  /\ nfa \in BuiltAutomata
  /\ ret = None
  /\ pc = "build"
  /\ string = <<>>
  /\ ord = None
  /\ threads = <<>>
  /\ pos = 0
  /\ thread = None
  /\ result = NoResult
  /\ calls = NoCalls
  /\ probe = NoProbe

NextCalls ==
  \/ \E c \in Callers, s \in CallStrings, o \in CallOrders :
       CallProcess(c, s, o)
  \/ \E c \in Callers : CallChar(c)
  \/ \E c \in Callers : CallSelect(c)
  \/ \E c \in Callers : CallReturn(c)

SpecCalls == InitCalls /\ [][NextCalls]_vars

\* the call of c has returned to its caller
CallReturned(c) == calls[c].pc = "done"

Kept(c) == accepting(nfa, calls[c].threads)

C11_WitnessEqualValues ==
  /\ CallReturned("first") /\ CallReturned("second")
  /\ calls["first"].string = calls["second"].string
  /\ calls["first"].ord = Some("constant")
  /\ calls["second"].ord = Some("constant")
  /\ calls["first"].result.kind = "ok"
  /\ calls["first"].result = calls["second"].result
  /\ \E j \in DOMAIN Kept("first"), k \in DOMAIN Kept("first") :
       Kept("first")[j].state # Kept("first")[k].state

\* C12: no step of a process call changes the automaton, and a call that
\* has returned, whatever steps of other calls ran between its own, has
\* the result process gives for its arguments on its own.
C12_CallsDoNotInterfere ==
  [][/\ nfa' = nfa
     /\ \A c \in Callers :
          calls'[c].pc = "done" =>
            calls'[c].result
              = process(nfa, calls'[c].string, calls'[c].ord[1])]_vars

\* C12 witness: a call has returned a match while the call of the other
\* caller, on another input, is between two rounds of its loop.
C12_Witness ==
  \E c \in Callers, d \in Callers :
    /\ calls[c].pc = "done"
    /\ calls[c].result.kind = "ok"
    /\ calls[d].pc = "run"
    /\ calls[d].pos >= 1
    /\ calls[d].pos < Len(calls[d].string)
    /\ calls[d].string # calls[c].string
    /\ Len(calls[d].threads) >= 2

====
